---- MODULE Spec2Model ----
(***************************************************************************)
(* Model of deputies.py: read_rows, build_graph and export_html, run in    *)
(* sequence by the __main__ block.                                         *)
(*                                                                         *)
(* Strings are sequences of characters, so that str.strip and str.replace  *)
(* are computed rather than assumed.  A networkx DiGraph is a record with  *)
(* a node table (name -> role attribute) and an edge table                 *)
(* (<<source, target>> -> relation attribute): a DiGraph keeps at most one *)
(* edge per ordered pair of nodes.                                         *)
(***************************************************************************)
EXTENDS Integers, Sequences, FiniteSets, TLC

VARIABLES pc, fieldnames, reader, rows, G, i, k, err, tmp, html, out

vars == <<pc, fieldnames, reader, rows, G, i, k, err, tmp, html, out>>

(***************************************************************************)
(* Bounds of the model.                                                    *)
(***************************************************************************)
\* rows of the input file when only read_rows and build_graph are run
MaxRows == 2
\* rows of the input file when the whole program is run
MaxPipelineRows == 1

(***************************************************************************)
(* Input alphabet.                                                         *)
(***************************************************************************)
Whitespace == {" ", "\t"}

\* csv.DictReader fills the keys of a short row with None
None == <<"None">>

FirstNames == {<<"a">>}
Surnames == {<<"b">>, <<"c">>}

\* values of a proposer / seconder field: empty, whitespace-only, padded name
\* of a candidate, name of nobody's candidacy, missing
NomFields == {<<>>, <<" ">>, <<" ", "a", " ", "b", " ">>, <<"d">>, None}

InputRows == [candidate_firstname : FirstNames, candidate_surname : Surnames,
              proposer : NomFields, seconder : NomFields]

Required == {"candidate_surname", "candidate_firstname", "proposer", "seconder"}

Columns == Required \cup {"party"}

\* reader.fieldnames or []: the header of the file as a set of column names;
\* the empty file, whose fieldnames is None, is the empty set
Headers == SUBSET Columns

\* the relations scanned seconder first
RelationsSwapped == <<"seconder", "proposer">>

Relations == <<"proposer", "seconder">>

Roles == {"candidate", "proposer", "seconder"}

(***************************************************************************)
(* Pure functions.                                                         *)
(***************************************************************************)
RECURSIVE LStrip(_)
LStrip(s) == IF s # <<>> /\ Head(s) \in Whitespace THEN LStrip(Tail(s)) ELSE s

RECURSIVE RStrip(_)
RStrip(s) == IF s # <<>> /\ s[Len(s)] \in Whitespace
             THEN RStrip(SubSeq(s, 1, Len(s) - 1)) ELSE s

Strip(s) == RStrip(LStrip(s))

\* f"{row['candidate_firstname']} {row['candidate_surname']}"
DisplayName(row) == row.candidate_firstname \o <<" ">> \o row.candidate_surname

\* every required column reported, present or not
MissingAll(fn) == Required

\* required - set(reader.fieldnames or [])
Missing(fn) == Required \ fn

\* str.replace: every non-overlapping occurrence of old, left to right
RECURSIVE Replace(_, _, _)
Replace(s, old, new) ==
    IF Len(s) < Len(old) THEN s
    ELSE IF SubSeq(s, 1, Len(old)) = old
         THEN new \o Replace(SubSeq(s, Len(old) + 1, Len(s)), old, new)
         ELSE <<Head(s)>> \o Replace(Tail(s), old, new)

\* the text '<body>'
BodyTag == <<"<", "body", ">">>

\* the banner (search input, Search button) and the script
Injection == <<"node-search", "searchNode-button", "script">>

\* documents net.write_html can emit: the body tag bare, the body tag with
\* attributes, and the bare body tag with the text '<body>' again in the data
DefaultDocs ==
    { <<"<", "body", ">", "net", "<", "/body", ">">>,
      <<"<", "body", " ", "attr", ">", "net", "<", "/body", ">">>,
      <<"<", "body", ">", "net", "<", "body", ">", "<", "/body", ">">> }

EmptyGraph == [node |-> <<>>, edge |-> <<>>]

\* the guard of the node creation always lets it through
has_node_never(g, n) == FALSE

has_node(g, n) == n \in DOMAIN g.node

\* G.add_node(n, role=...): creates the node or updates its attribute
add_node(g, n, role) ==
    [g EXCEPT !.node = [x \in DOMAIN g.node \cup {n} |->
                            IF x = n THEN role ELSE g.node[x]]]

\* G.add_edge(u, v, relation=...): creates missing end nodes without a role,
\* then creates the edge u -> v or updates its attribute
add_edge(g, u, v, relation) ==
    [node |-> [x \in DOMAIN g.node \cup {u, v} |->
                  IF x \in DOMAIN g.node THEN g.node[x] ELSE "other"],
     edge |-> [e \in DOMAIN g.edge \cup {<<u, v>>} |->
                  IF e = <<u, v>> THEN relation ELSE g.edge[e]]]

\* body of the first loop of build_graph for one row
Pass1Row(g, row) == add_node(g, DisplayName(row), "candidate")

\* the inner loop body without the test of the trimmed value
Pass2FieldNoSkip(g, row, relation) ==
    LET cand == DisplayName(row)
        nom  == Strip(row[relation])
    IN add_edge(IF ~has_node(g, nom) THEN add_node(g, nom, relation) ELSE g,
                nom, cand, relation)

\* body of the inner loop of build_graph for one row and one relation
Pass2Field(g, row, relation) ==
    LET cand == DisplayName(row)
        nom  == Strip(row[relation])
    IN IF nom # <<>>
       THEN add_edge(IF ~has_node(g, nom) THEN add_node(g, nom, relation) ELSE g,
                     nom, cand, relation)
       ELSE g

(***************************************************************************)
(* State.                                                                  *)
(***************************************************************************)
NoErr == [type |-> "none", at |-> "none", missing |-> {}]

NoFile == [exists |-> FALSE, content |-> <<>>]

\* the output path as the invocation found it
Untouched == [touched |-> FALSE, content |-> <<>>]

Init ==
    /\ pc = "read_open"
    /\ fieldnames \in Headers
    /\ reader = <<>>
    /\ rows = <<>>
    /\ G = EmptyGraph
    /\ i = 1
    /\ k = 1
    /\ err = NoErr
    /\ tmp = NoFile
    /\ html = <<>>
    /\ out = Untouched

Raise(type, missing) ==
    /\ pc' = "failed"
    /\ err' = [type |-> type, at |-> pc, missing |-> missing]

(***************************************************************************)
(* read_rows                                                               *)
(***************************************************************************)
\* open(csv_path) fails
ReadOpenFail ==
    /\ pc = "read_open"
    /\ Raise("OSError", {})
    /\ UNCHANGED <<fieldnames, reader, rows, G, i, k, tmp, html, out>>

\* the header check
ReadHeader ==
    /\ pc = "read_open"
    /\ IF ~(Required \subseteq fieldnames)
       THEN Raise("ValueError", Missing(fieldnames))
       ELSE pc' = "read_rows" /\ err' = err
    /\ UNCHANGED <<fieldnames, reader, rows, G, i, k, tmp, html, out>>

\* list(reader) takes one more row from the file
ReadRow(max) ==
    /\ pc = "read_rows"
    /\ Len(reader) < max
    /\ \E row \in InputRows : reader' = Append(reader, row)
    /\ UNCHANGED <<pc, fieldnames, rows, G, i, k, err, tmp, html, out>>

\* list(reader) reaches the end of the file; rows = read_rows(args.input)
ReadReturn ==
    /\ pc = "read_rows"
    /\ rows' = reader
    /\ pc' = "pass1"
    /\ i' = 1
    /\ G' = EmptyGraph
    /\ UNCHANGED <<fieldnames, reader, k, err, tmp, html, out>>

(***************************************************************************)
(* build_graph                                                             *)
(***************************************************************************)
Pass1Step ==
    /\ pc = "pass1"
    /\ i <= Len(rows)
    /\ G' = Pass1Row(G, rows[i])
    /\ i' = i + 1
    /\ UNCHANGED <<pc, fieldnames, reader, rows, k, err, tmp, html, out>>

Pass1Done ==
    /\ pc = "pass1"
    /\ i > Len(rows)
    /\ pc' = "pass2"
    /\ i' = 1
    /\ k' = 1
    /\ UNCHANGED <<fieldnames, reader, rows, G, err, tmp, html, out>>

Pass2Step ==
    /\ pc = "pass2"
    /\ i <= Len(rows)
    /\ rows[i][Relations[k]] # None
    /\ G' = Pass2Field(G, rows[i], Relations[k])
    /\ IF k < Len(Relations)
       THEN k' = k + 1 /\ i' = i
       ELSE k' = 1 /\ i' = i + 1
    /\ UNCHANGED <<pc, fieldnames, reader, rows, err, tmp, html, out>>

\* row[relation] is None: None has no strip
Pass2Fail ==
    /\ pc = "pass2"
    /\ i <= Len(rows)
    /\ rows[i][Relations[k]] = None
    /\ Raise("AttributeError", {})
    /\ UNCHANGED <<fieldnames, reader, rows, G, i, k, tmp, html, out>>

Pass2Done ==
    /\ pc = "pass2"
    /\ i > Len(rows)
    /\ pc' = "write_tmp"
    /\ UNCHANGED <<fieldnames, reader, rows, G, i, k, err, tmp, html, out>>

(***************************************************************************)
(* export_html                                                             *)
(***************************************************************************)
\* net.write_html(tmp_html)
WriteTmp ==
    /\ pc = "write_tmp"
    /\ \E doc \in DefaultDocs : tmp' = [exists |-> TRUE, content |-> doc]
    /\ pc' = "read_tmp"
    /\ UNCHANGED <<fieldnames, reader, rows, G, i, k, err, html, out>>

\* net.write_html fails, before or after it has created the file
WriteTmpFail ==
    /\ pc = "write_tmp"
    /\ tmp' \in {tmp, [exists |-> TRUE, content |-> <<>>]}
    /\ Raise("OSError", {})
    /\ UNCHANGED <<fieldnames, reader, rows, G, i, k, html, out>>

\* html = f.read(); html = html.replace('<body>', '<body>' + injection)
ReadTmp ==
    /\ pc = "read_tmp"
    /\ html' = Replace(tmp.content, BodyTag, BodyTag \o Injection)
    /\ pc' = "open_out"
    /\ UNCHANGED <<fieldnames, reader, rows, G, i, k, err, tmp, out>>

\* the read-back fails with the output file already opened for writing
ReadTmpFailOutOpened ==
    /\ pc = "read_tmp"
    /\ out' = [touched |-> TRUE, content |-> <<>>]
    /\ Raise("OSError", {})
    /\ UNCHANGED <<fieldnames, reader, rows, G, i, k, tmp, html>>

ReadTmpFail ==
    /\ pc = "read_tmp"
    /\ Raise("OSError", {})
    /\ UNCHANGED <<fieldnames, reader, rows, G, i, k, tmp, html, out>>

\* open(output_path, 'w') creates or truncates the file
OpenOut ==
    /\ pc = "open_out"
    /\ out' = [touched |-> TRUE, content |-> <<>>]
    /\ pc' = "write_out"
    /\ UNCHANGED <<fieldnames, reader, rows, G, i, k, err, tmp, html>>

OpenOutFail ==
    /\ pc = "open_out"
    /\ Raise("OSError", {})
    /\ UNCHANGED <<fieldnames, reader, rows, G, i, k, tmp, html, out>>

\* f.write(html) and the close of the with block
WriteOut ==
    /\ pc = "write_out"
    /\ out' = [out EXCEPT !.content = html]
    /\ pc' = "remove_tmp"
    /\ UNCHANGED <<fieldnames, reader, rows, G, i, k, err, tmp, html>>

\* the write or the close fails after any part of the text has reached the
\* file
WriteOutFail ==
    /\ pc = "write_out"
    /\ \E n \in 0 .. Len(html) :
           out' = [out EXCEPT !.content = SubSeq(html, 1, n)]
    /\ Raise("OSError", {})
    /\ UNCHANGED <<fieldnames, reader, rows, G, i, k, tmp, html>>

\* os.remove(tmp_html), then the print
RemoveTmp ==
    /\ pc = "remove_tmp"
    /\ tmp' = NoFile
    /\ pc' = "done"
    /\ UNCHANGED <<fieldnames, reader, rows, G, i, k, err, html, out>>

RemoveTmpFail ==
    /\ pc = "remove_tmp"
    /\ Raise("OSError", {})
    /\ UNCHANGED <<fieldnames, reader, rows, G, i, k, tmp, html, out>>

NextGraph ==
    \/ ReadOpenFail
    \/ ReadHeader
    \/ ReadRow(MaxRows)
    \/ ReadReturn
    \/ Pass1Step
    \/ Pass1Done
    \/ Pass2Step
    \/ Pass2Fail
    \/ Pass2Done

SpecGraph == Init /\ [][NextGraph]_vars

Next ==
    \/ ReadOpenFail
    \/ ReadHeader
    \/ ReadRow(MaxPipelineRows)
    \/ ReadReturn
    \/ Pass1Step
    \/ Pass1Done
    \/ Pass2Step
    \/ Pass2Fail
    \/ Pass2Done
    \/ WriteTmp
    \/ WriteTmpFail
    \/ ReadTmp
    \/ ReadTmpFail
    \/ OpenOut
    \/ OpenOutFail
    \/ WriteOut
    \/ WriteOutFail
    \/ RemoveTmp
    \/ RemoveTmpFail

Spec == Init /\ [][Next]_vars

(***************************************************************************)
(* build_graph as a function of the rows, for rows without a None field    *)
(***************************************************************************)
RECURSIVE Pass1All(_, _)
Pass1All(g, rs) ==
    IF rs = <<>> THEN g ELSE Pass1All(Pass1Row(g, Head(rs)), Tail(rs))

RECURSIVE Pass2All(_, _)
Pass2All(g, rs) ==
    IF rs = <<>> THEN g
    ELSE Pass2All(Pass2Field(Pass2Field(g, Head(rs), Relations[1]),
                             Head(rs), Relations[2]),
                  Tail(rs))

BuildGraph(rs) == Pass2All(Pass1All(EmptyGraph, rs), rs)

\* the loop of Pass1Step, Pass2Step computes BuildGraph
BuildGraphAgrees == pc = "write_tmp" => G = BuildGraph(rows)

(***************************************************************************)
(* Vocabulary of the properties.                                           *)
(***************************************************************************)
ExportPcs == {"write_tmp", "read_tmp", "open_out", "write_out", "remove_tmp", "done"}

\* build_graph has returned
Built == pc \in ExportPcs \/ (pc = "failed" /\ err.at \in ExportPcs)

\* the first pass of build_graph is over
Pass1Over == pc = "pass2" \/ Built \/ (pc = "failed" /\ err.at = "pass2")

Terminal == pc \in {"done", "failed"}

CandidateNames == {DisplayName(rows[j]) : j \in 1 .. Len(rows)}

IsBlank(s) == \A j \in 1 .. Len(s) : s[j] \in Whitespace

\* the nominations of the rows: (row, relation) with a non-blank field
Nominations ==
    {n \in (1 .. Len(rows)) \X {"proposer", "seconder"} :
        rows[n[1]][n[2]] # None /\ ~IsBlank(rows[n[1]][n[2]])}

NomName(n) == Strip(rows[n[1]][n[2]])

Triples == {<<NomName(n), DisplayName(rows[n[1]]), n[2]>> : n \in Nominations}

HasEdge(u, v, relation) ==
    <<u, v>> \in DOMAIN G.edge /\ G.edge[<<u, v>>] = relation

\* position of a nomination in the scan: rows in order, proposer first
ScanPos(n) == 2 * n[1] - (IF n[2] = "proposer" THEN 1 ELSE 0)

FirstRelation(name) ==
    LET occ   == {n \in Nominations : NomName(n) = name}
        first == CHOOSE n \in occ : \A m \in occ : ScanPos(n) <= ScanPos(m)
    IN first[2]

Orderings ==
    LET N == 1 .. Len(rows)
    IN {[j \in N |-> rows[f[j]]] : f \in {g \in [N -> N] : \A a, b \in N : a # b => g[a] # g[b]}}

(***************************************************************************)
(* C1: after build_graph every candidate display name is a node of role    *)
(* candidate, also when the name is a proposer or seconder of some row,    *)
(* and no step changes a node's role away from candidate.                  *)
(***************************************************************************)
C1_CandidatesStayCandidates ==
    /\ [](Pass1Over => \A c \in CandidateNames :
                          c \in DOMAIN G.node /\ G.node[c] = "candidate")
    /\ [][\A n \in DOMAIN G.node :
             G.node[n] = "candidate"
                => n \in DOMAIN G'.node /\ G'.node[n] = "candidate"]_vars

W_C1 ==
    /\ Built
    /\ \E n \in Nominations :
          /\ NomName(n) \in CandidateNames
          /\ NomName(n) # DisplayName(rows[n[1]])
          /\ G.node[NomName(n)] = "candidate"

(***************************************************************************)
(* C2: the number of edges of the graph is the number of distinct          *)
(* (source, target, relation) triples of the non-blank nominator fields.   *)
(***************************************************************************)
CE_C2_EdgeCount ==
    Built => Cardinality(DOMAIN G.edge) = Cardinality(Triples)

(***************************************************************************)
(* C3: every non-blank nominator field has its edge, from the nominator to *)
(* the row's candidate, labelled with the field's relation, in the graph   *)
(* build_graph returns.                                                    *)
(***************************************************************************)
CE_C3_EveryNominationHasEdge ==
    Built => \A t \in Triples : HasEdge(t[1], t[2], t[3])

(***************************************************************************)
(* C4: a blank (empty or whitespace-only) proposer or seconder field adds  *)
(* no node and no edge, and the graph never has a node named "".           *)
(***************************************************************************)
C4_BlankFieldSkipped ==
    /\ [][(pc = "pass2" /\ i <= Len(rows) /\ IsBlank(rows[i][Relations[k]]))
            => G' = G]_vars
    /\ [](<<>> \notin DOMAIN G.node)

W_C4 ==
    /\ pc = "pass2"
    /\ i <= Len(rows)
    /\ k = 2
    /\ rows[i].proposer # <<>>
    /\ IsBlank(rows[i].proposer)

(***************************************************************************)
(* C9: a nominator field that is the row's own candidate yields a          *)
(* self-loop labelled with the field's relation, on a node of role         *)
(* candidate.                                                              *)
(***************************************************************************)
CE_C9_SelfLoop ==
    Built => \A n \in Nominations :
                NomName(n) = DisplayName(rows[n[1]])
                => /\ HasEdge(NomName(n), NomName(n), n[2])
                   /\ G.node[NomName(n)] = "candidate"

(***************************************************************************)
(* C10: a nominator that is nobody's candidate has the relation of its     *)
(* first occurrence in the scan as its role, a node's role never changes,  *)
(* every node has a role in Roles, and in every ordering of the rows the   *)
(* candidates have role candidate.                                         *)
(***************************************************************************)
C10_FirstOccurrenceRole ==
    /\ [](Built =>
            /\ \A n \in DOMAIN G.node :
                  /\ G.node[n] \in Roles
                  /\ n \notin CandidateNames => G.node[n] = FirstRelation(n)
            /\ \A rs \in Orderings : \A c \in CandidateNames :
                  BuildGraph(rs).node[c] = "candidate")
    /\ [][\A n \in DOMAIN G.node :
             n \in DOMAIN G'.node /\ G'.node[n] = G.node[n]]_vars

\* two orderings of the same rows give a nominator different roles
W_C10 ==
    /\ Built
    /\ \E rs \in Orderings : \E n \in DOMAIN G.node :
          /\ n \notin CandidateNames
          /\ BuildGraph(rs).node[n] # G.node[n]

(***************************************************************************)
(* Vocabulary of the properties of read_rows and export_html.              *)
(***************************************************************************)
\* the header of the file has been read
HeaderRead == pc # "read_open" /\ ~(pc = "failed" /\ err.type = "OSError" /\ err.at = "read_open")

HeaderLacks == ~(Required \subseteq fieldnames)

\* nothing of the rows, the graph or the files has been produced
NothingProcessed ==
    /\ reader = <<>>
    /\ rows = <<>>
    /\ G = EmptyGraph
    /\ tmp = NoFile
    /\ out = Untouched

\* read_rows has returned
RowsReturned == pc \notin {"read_open", "read_rows"} /\ ~(pc = "failed" /\ err.at = "read_open")

SchemaFailure(type) ==
    /\ pc = "failed"
    /\ err.type = type
    /\ err.at = "read_open"
    /\ err.missing = {c \in Required : c \notin fieldnames}
    /\ NothingProcessed

\* export_html has written its temporary file and has ended
ExportEnded ==
    \/ pc = "done"
    \/ (pc = "failed" /\ err.at \in {"read_tmp", "open_out", "write_out", "remove_tmp"})

BannerCount(s) == Cardinality({j \in 1 .. Len(s) : s[j] = "node-search"})

\* index of the '>' that closes the opening body tag of s, 0 when s has none
BodyOpenEnd(s) ==
    LET opens == {b \in 1 .. Len(s) - 1 : s[b] = "<" /\ s[b + 1] = "body"}
        gts(b) == {j \in b .. Len(s) : s[j] = ">"}
    IN IF opens = {} THEN 0
       ELSE LET b == CHOOSE x \in opens : \A y \in opens : x <= y
            IN IF gts(b) = {} THEN 0
               ELSE CHOOSE j \in gts(b) : \A m \in gts(b) : j <= m

IsPrefix(p, s) == Len(p) <= Len(s) /\ p = SubSeq(s, 1, Len(p))

CE_C6_BannerOnce ==
    pc = "done" =>
        /\ BannerCount(out.content) = 1
        /\ BodyOpenEnd(out.content) > 0
        /\ SubSeq(out.content, BodyOpenEnd(out.content) + 1,
                  BodyOpenEnd(out.content) + Len(Injection)) = Injection

(***************************************************************************)
(* C7 as stated: in every terminal state the output file is the complete   *)
(* patched document or has not been created or modified.                   *)
(***************************************************************************)
CE_C7_AllOrNothing ==
    Terminal => \/ out = Untouched
                \/ (out.touched /\ html # <<>> /\ out.content = html)

(***************************************************************************)
(* C7 amended: a failure before the final write leaves the output file     *)
(* as it was; completion, or a failure of the removal only, leaves the     *)
(* complete patched document; a failure of the final write leaves a        *)
(* prefix of the patched document (possibly empty).                        *)
(***************************************************************************)
C7_OutputPerFailurePoint ==
    Terminal =>
        /\ (pc = "failed" /\ err.at \notin {"write_out", "remove_tmp"})
              => out = Untouched
        /\ (pc = "done" \/ (pc = "failed" /\ err.at = "remove_tmp"))
              => (out.touched /\ html # <<>> /\ out.content = html)
        /\ (pc = "failed" /\ err.at = "write_out")
              => (out.touched /\ IsPrefix(out.content, html))

\* the read-back of the temporary file failed
W_C7 ==
    /\ pc = "failed"
    /\ err.at = "read_tmp"
    /\ tmp.exists
    /\ out = Untouched

(***************************************************************************)
(* C8: whenever a call of export_html that wrote its temporary file has    *)
(* ended, normally or by a failure, the temporary file no longer exists,   *)
(* and the file is not removed before the output file is written.          *)
(***************************************************************************)
CE_C8_TmpRemoved ==
    /\ ExportEnded => ~tmp.exists
    /\ pc \in {"read_tmp", "open_out", "write_out", "remove_tmp"} => tmp.exists

====
